---- MODULE Spec2Model ----
(***************************************************************************)
(* PreenCut: the task queue and result store (modules/processing_queue.py), *)
(* the Whisper GPU load balancer (services/whisper_gpu_load_balancer.py)   *)
(* and the LLM segmentation fallback chain (modules/llm_processor.py).     *)
(*                                                                         *)
(* The specifications of this module:                                      *)
(*   SpecQ   - ProcessingQueue: add_task, the coordinator thread           *)
(*             (_process_queue), readers (get_result), the reaper          *)
(*             (_cleanup_results) and the clock;                           *)
(*   SpecLB  - WhisperGPULoadBalancer: concurrent transcribe_audio calls,  *)
(*             made directly or as the jobs of transcribe_multiple_files;  *)
(*   SpecSeg - LLMProcessor.segment_video applied to every sequence of     *)
(*             generation outcomes;                                        *)
(*   SpecNorm  - normalize_relevancy_score (web/gradio_ui.py) applied to   *)
(*             a score and to its own result;                              *)
(*   SpecMerge - the narrative segmentation of LLMProcessor: the           *)
(*             candidates built from an LLM answer and the merger          *)
(*             _merge_and_extend_enhanced_segments;                        *)
(*   SpecSettings - the settings cache of config/settings.py:              *)
(*             get_settings and reload_settings called by several threads; *)
(*   SpecDI  - the ServiceContainer and the ServiceScopes of               *)
(*             core/dependency_injection.py resolving one service type;    *)
(*   SpecGlobal - get_whisper_gpu_load_balancer and its shutdown, called   *)
(*             by several threads.                                         *)
(* Each specification leaves the variables of the others unchanged.        *)
(***************************************************************************)
EXTENDS Integers, Sequences, FiniteSets, TLC

VARIABLES
    results,      \* ProcessingQueue.results: task id -> entry (a dict)
    queue,        \* ProcessingQueue.queue: FIFO of task ids
    coord,        \* position and locals of the _process_queue thread
    now,          \* time.time()
    nextId,       \* next fresh task id (uuid4 in the callers)
    started,      \* history: the task ids in the order in which line 79
                  \* set their status to "processing"
    workers,      \* WhisperGPULoadBalancer.workers: gpu id -> GPUWorker
    calls,        \* the transcribe_audio calls, one thread each
    batch,        \* the transcribe_multiple_files call: position, number
                  \* of paths, results collected
    seg,          \* the segment_video call: position, stages run, the
                  \* response its result was taken from, and the result
    norm,         \* normalize_relevancy_score applied to a score and then
                  \* to its own result
    narr,         \* the narrative segmentation: the segments of the LLM
                  \* answer, the candidates fed to the merger, its result
    _settings_instance,  \* config/settings.py: the cached settings
    _settings_lock,      \* the thread that holds _settings_lock
    cfg,                 \* the threads calling get_settings/reload_settings
    _services,           \* ServiceContainer._services: the descriptor of
                         \* the one service type of the model
    _singletons,         \* ServiceContainer._singletons: its instance
    _lock,               \* the thread that holds ServiceContainer._lock
    _scoped_services,    \* ServiceScope._scoped_services, one scope per
                         \* thread
    built,               \* number of instances of the service constructed
    di,                  \* the threads resolving the service
    _gpu_load_balancer,  \* whisper_gpu_load_balancer.py: the global
    balancers,           \* number of WhisperGPULoadBalancer constructed
    since_shutdown,      \* history: those constructed since the last
                         \* shutdown_whisper_gpu_load_balancer
    getter               \* the threads in get_whisper_gpu_load_balancer

qVars   == <<results, queue, coord, now, nextId, started>>
lbVars  == <<workers, calls, batch>>
segVars == <<seg>>
scoreVars == <<norm, narr>>
cfgVars == <<_settings_instance, _settings_lock, cfg>>
diVars  == <<_services, _singletons, _lock, _scoped_services, built, di>>
glbVars == <<_gpu_load_balancer, balancers, since_shutdown, getter>>
appVars == <<cfgVars, diVars, glbVars>>
vars    == <<results, queue, coord, now, nextId, started, workers, calls,
             batch, seg, norm, narr, cfgVars, diVars, glbVars>>

(***************************************************************************)
(* Bounds of the model.                                                    *)
(***************************************************************************)
MaxTasks == 3          \* tasks submitted
MaxFiles == 2          \* files per task
MaxTime  == 2          \* last clock value
MaxCalls == 3          \* transcribe_audio calls
NumGpus == 2           \* configured GPU ids (settings.gpu.whisper_gpu_ids)
MaxJobTime == 2        \* processing_time of one transcription
MaxItems == 2          \* entries in one parsed JSON array
MaxT == 1              \* largest start/end value in a parsed entry
NegT == 1              \* the smallest one is -NegT
MaxSubTime == 1        \* largest timestamp found in the subtitle text
MaxFine == 1100        \* scores up to MaxFine/1000 are drawn in steps of 0.001
MaxCoarse == 10100     \* scores up to MaxCoarse/100 are drawn in steps of 0.01
MaxSlot == 7           \* candidate times are TimeStep * (0..MaxSlot) seconds
MaxCands == 2          \* segments in one answer of the LLM
NumThreads == 3        \* threads that use the settings cache, the service
                       \* container or the balancer getter
MaxBuilt == 3          \* resolutions start while fewer instances exist
MaxBalancers == 3      \* getter calls start while fewer balancers exist

(***************************************************************************)
(* ProcessingQueue.__init__: retention time and retained-result cap.  The  *)
(* code sets 24*60*60 seconds and 100 entries; the model scales both so    *)
(* that expiry and surplus happen within MaxTime and MaxTasks.             *)
(***************************************************************************)
result_ttl  == 1
max_results == 1

ENABLE_ALIGNMENT == TRUE

NoTime == -1           \* the "last_accessed" key is absent
NoTask == 0            \* no task id

TaskIds == 1..MaxTasks
\* the files of a task, named by their position; whether a path has a video
\* extension is decided where the coordinator tests it
FileLists == {[i \in 1..k |-> i] : k \in 1..MaxFiles}

Max(a, b) == IF a >= b THEN a ELSE b
Min(a, b) == IF a <= b THEN a ELSE b

(***************************************************************************)
(* Progress is a fraction of 1; the model stores its numerator over        *)
(* 100 * len(files), so that 0.01 is K, i/K is 100*i and 1.0 is 100*K.     *)
(***************************************************************************)
ProgressOne(k) == 100 * k
ProgressStart(k) == k
FileProgressBase(i) == 100 * (i - 1)
FileProgress(i, pct) == FileProgressBase(i) + pct

(***************************************************************************)
(* add_task: the entry stored under the lock.                              *)
(***************************************************************************)
NewEntry(files, t) ==
    [status |-> "queued", files |-> files, timestamp |-> t,
     progress |-> 0, last_accessed |-> NoTime,
     hasResult |-> FALSE, result |-> <<>>, hasError |-> FALSE]

(***************************************************************************)
(* _process_queue: the entry as rewritten by each block under the lock.    *)
(***************************************************************************)
\* as StartEntry, but the status is left as it was
StartEntryKeepsStatus(e) ==
    [e EXCEPT !.progress = ProgressStart(Len(e.files))]

StartEntry(e) == [e EXCEPT !.status = "processing",
                           !.progress = ProgressStart(Len(e.files))]

ProgressEntry(e, p) == [e EXCEPT !.progress = p]

\* as CompleteEntry, but the "result" key is not written
CompleteEntryNoResult(e, file_results) ==
    [e EXCEPT !.status = "completed",
              !.progress = ProgressOne(Len(e.files))]

CompleteEntry(e, file_results) ==
    [e EXCEPT !.status = "completed", !.hasResult = TRUE,
              !.result = file_results,
              !.progress = ProgressOne(Len(e.files))]

FailEntry(e) == [e EXCEPT !.status = "error", !.hasError = TRUE,
                          !.progress = 0]

(***************************************************************************)
(* get_result: the entry with its access time refreshed.                   *)
(***************************************************************************)
\* as TouchEntry, but the time of submission is refreshed as well
TouchBothTimes(e, t) == [e EXCEPT !.last_accessed = t, !.timestamp = t]

TouchEntry(e, t) == [e EXCEPT !.last_accessed = t]

\* line 188: self.results.get(task_id, {"status": "not_found"})
NotFound == [status |-> "not_found"]
Lookup(res, id) == IF id \in DOMAIN res THEN res[id] ELSE NotFound

\* lines 188-192: the dict that get_result returns at time t
Returned(res, id, t) ==
    IF Lookup(res, id).status # "not_found" THEN TouchEntry(res[id], t)
    ELSE NotFound

(***************************************************************************)
(* _cleanup_results.                                                       *)
(***************************************************************************)
\* x[1].get("last_accessed", x[1]["timestamp"])
AccessKey(e) == IF e.last_accessed # NoTime THEN e.last_accessed
                ELSE e.timestamp

\* The id that sorted() puts first: least key, and for equal keys the
\* earlier dict insertion (ids are inserted in increasing order).
FirstByKey(res, S) ==
    CHOOSE a \in S : \A b \in S :
        \/ AccessKey(res[a]) < AccessKey(res[b])
        \/ AccessKey(res[a]) = AccessKey(res[b]) /\ a <= b

RECURSIVE SortedFrom(_, _)
SortedFrom(res, S) ==
    IF S = {} THEN <<>>
    ELSE LET a == FirstByKey(res, S)
         IN  <<a>> \o SortedFrom(res, S \ {a})

sorted_results(res) == SortedFrom(res, DOMAIN res)

Expired(res, t) ==
    {id \in DOMAIN res : t - AccessKey(res[id]) > result_ttl}

\* The ids popped by the second loop: sorted_results[:to_remove], where
\* sorted_results is the list built before the first loop and to_remove is
\* computed from the store as the first loop left it.
SurplusPopped(res, t) ==
    LET srt  == sorted_results(res)
        left == (DOMAIN res) \ Expired(res, t)
    IN  IF Cardinality(left) > max_results
        THEN LET to_remove == Cardinality(left) - max_results
             IN  {srt[k] : k \in 1..Min(to_remove, Len(srt))}
        ELSE {}

Reaped(res, t) == Expired(res, t) \cup SurplusPopped(res, t)

Restrict(res, S) == [id \in S |-> res[id]]

(***************************************************************************)
(* LLMProcessor.segment_video.  Times are in tenths of a second.           *)
(*                                                                         *)
(* An entry of a parsed JSON array: a dict or something else; the values   *)
(* under "start" and "end" are numbers, absent (Missing) or not            *)
(* convertible by float() (Bad); "summary" and "tags" are described by     *)
(* their type.                                                             *)
(***************************************************************************)
Missing == -1000
Bad == -2000
\* an integer too large for float(): float() raises OverflowError
Huge == -3000
TimeVals == {Missing, Bad, Huge} \cup ((-NegT)..MaxT)
SummaryKinds == {"str", "nonstr", "missing"}
TagsKinds == {"list", "badlist", "other"}   \* badlist: a list with a non-string

NonDict == [isDict |-> FALSE, start |-> Missing, end |-> Missing,
            summary |-> "missing", tags |-> "other"]

Entries ==
    {NonDict}
    \cup {[isDict |-> TRUE, start |-> a, end |-> b,
           summary |-> "str", tags |-> "list"] : a \in TimeVals, b \in TimeVals}
    \cup {[isDict |-> TRUE, start |-> 0, end |-> MaxT,
           summary |-> sm, tags |-> tg] : sm \in SummaryKinds, tg \in TagsKinds}

EntryLists == UNION {[1..k -> Entries] : k \in 0..MaxItems}

(***************************************************************************)
(* The outcome of one _call_ollama: it raises ValueError (timeout,         *)
(* connection error, non-200 status, empty or undecodable response), or    *)
(* returns a text.  A text is a payload in a wrapping:                     *)
(*   payload  array   - a JSON array of the entries items                  *)
(*            object  - a JSON object; field says where its array is:      *)
(*                      "known" (segments/results/items/data), "other"     *)
(*                      (some other array-valued field) or "none" (no      *)
(*                      array-valued field; items is the object itself)    *)
(*            scalar  - a JSON number, string, boolean or null             *)
(*            garbage - not JSON                                           *)
(*   wrapping bare    - the text is the payload                            *)
(*            fence   - a Markdown code fence around the payload           *)
(*            think   - a <think>...</think> block before the payload      *)
(*            prose   - free text around the payload                       *)
(***************************************************************************)
Wraps == {"bare", "fence", "think", "prose"}
ErrorResponse == [kind |-> "error", wrap |-> "bare", json |-> "garbage",
                  field |-> "none", items |-> <<>>]
TextResponses ==
    {[kind |-> "text", wrap |-> w, json |-> "array", field |-> "none",
      items |-> it] : w \in Wraps, it \in EntryLists}
    \cup {[kind |-> "text", wrap |-> w, json |-> "object", field |-> f,
           items |-> it] : w \in Wraps, f \in {"known", "other"},
                           it \in EntryLists}
    \cup {[kind |-> "text", wrap |-> w, json |-> "object", field |-> "none",
           items |-> <<e>>] : w \in Wraps, e \in Entries \ {NonDict}}
    \cup {[kind |-> "text", wrap |-> w, json |-> j, field |-> "none",
           items |-> <<>>] : w \in Wraps, j \in {"scalar", "garbage"}}
Responses == {ErrorResponse} \cup TextResponses

MakeSegment(e) == [start |-> e.start, end |-> e.end]

\* _validate_segments, the test applied to one entry: a dict with start and
\* end; _ensure_vietnamese raises on a summary or a tag that is not a
\* string and float() raises on a value it cannot convert, and the entry is
\* skipped; so is an entry with start >= end.
ValidDirect(e) ==
    /\ e.isDict
    /\ e.start # Missing /\ e.end # Missing
    /\ e.summary # "nonstr"
    /\ e.tags # "badlist"
    /\ e.start \notin {Bad, Huge} /\ e.end \notin {Bad, Huge}
    /\ e.start < e.end

\* the entries that pass the test ok, in their order, as segments
KeepValid(items, ok(_)) ==
    LET kept == SelectSeq(items, ok)
    IN  [k \in 1..Len(kept) |-> MakeSegment(kept[k])]

_validate_segments(items) == KeepValid(items, ValidDirect)

\* _parse_and_validate_response, lines 425-458: summary and tags are
\* coerced, never a reason to skip.  The except clause of line 456 catches
\* ValueError and TypeError only.
ValidParsed(e) ==
    /\ e.isDict
    /\ e.start # Missing /\ e.end # Missing
    /\ e.start \notin {Bad, Huge} /\ e.end \notin {Bad, Huge}
    /\ e.start < e.end

\* lines 442-443: float(start), then float(end), raises OverflowError on
\* this entry; the exception leaves the loop over the entries.
Overflows(e) ==
    /\ e.isDict
    /\ e.start # Missing /\ e.end # Missing
    /\ \/ e.start = Huge
       \/ e.start # Bad /\ e.end = Huge

\* json.loads(result) of the text as returned
DirectJson(r) == IF r.wrap = "bare" THEN r.json ELSE "garbage"

\* lines 350-367: the <think> block and the code fence are removed
CleanedJson(r) == IF r.wrap \in {"bare", "fence", "think"} THEN r.json
                  ELSE "garbage"

\* lines 369-413: the list that is validated; <<>> where the function
\* returns None before validation.  When json.loads fails, the text from
\* the first "[" to the last "]" is parsed: inside prose that is the array
\* payload, or the array inside an object payload.
ParsedItems(r) ==
    CASE CleanedJson(r) = "array"  -> r.items
      [] CleanedJson(r) = "object" -> r.items
      [] CleanedJson(r) = "scalar" -> <<>>
      [] OTHER ->
           IF r.wrap = "prose"
              /\ (r.json = "array" \/ (r.json = "object" /\ r.field # "none"))
           THEN r.items ELSE <<>>

\* None is modelled as <<>>: the callers only test "if segments".  An
\* OverflowError is caught at line 467 and None is returned, whatever the
\* entries before it were.
_parse_and_validate_response(r) ==
    IF \E k \in 1..Len(ParsedItems(r)) : Overflows(ParsedItems(r)[k])
    THEN <<>>
    ELSE KeepValid(ParsedItems(r), ValidParsed)

DEFAULT_TOTAL_DURATION == 3000     \* 300 seconds

SetMax(S) == CHOOSE x \in S : \A y \in S : y <= x

\* round(x, 1) of x = n/d tenths, n >= 0
RoundDiv(n, d) == (2 * n + d) \div (2 * d)

\* _create_default_segments; times is the set of timestamps that the
\* pattern finds in the subtitle text
_create_default_segments(times) ==
    LET total_duration == IF times # {} THEN SetMax(times)
                          ELSE DEFAULT_TOTAL_DURATION
    IN  [i \in 1..5 |-> [start |-> RoundDiv((i - 1) * total_duration, 5),
                         end   |-> RoundDiv(i * total_duration, 5)]]

SubtitleTimes == SUBSET (0..MaxSubTime)

SegIdle == [pc |-> "idle", times |-> {}, stages |-> <<>>,
            resp |-> ErrorResponse, out |-> <<>>]

InitSeg == seg = SegIdle

\* segment_video is called; the first request (with the schema) is sent
SegmentVideoCall(times) ==
    /\ seg.pc \in {"idle", "done"}
    /\ seg' = [SegIdle EXCEPT !.pc = "call1", !.times = times]
    /\ UNCHANGED <<qVars, lbVars, scoreVars, appVars>>

SegReturn(s, stages, r, out) ==
    [s EXCEPT !.pc = "done", !.stages = stages, !.resp = r, !.out = out]

\* as AfterFirst, but what the cleanup stage extracted is not returned:
\* the second request is sent whenever the direct parse gave no list
AfterFirstAlwaysRetries(s, r) ==
    IF r.kind = "error"
    THEN [s EXCEPT !.pc = "call2", !.stages = <<"schema">>]
    ELSE IF DirectJson(r) = "array"
    THEN SegReturn(s, <<"schema">>, r, _validate_segments(r.items))
    ELSE [s EXCEPT !.pc = "call2", !.stages = <<"schema", "cleanup">>]

\* lines 156-181: the call after the outcome r of the first request
AfterFirst(s, r) ==
    IF r.kind = "error"
    THEN [s EXCEPT !.pc = "call2", !.stages = <<"schema">>]
    ELSE IF DirectJson(r) = "array"
    THEN SegReturn(s, <<"schema">>, r, _validate_segments(r.items))
    ELSE IF _parse_and_validate_response(r) # <<>>
    THEN SegReturn(s, <<"schema", "cleanup">>, r,
                   _parse_and_validate_response(r))
    ELSE [s EXCEPT !.pc = "call2", !.stages = <<"schema", "cleanup">>]

FirstResponse ==
    /\ seg.pc = "call1"
    /\ \E r \in Responses : seg' = AfterFirst(seg, r)
    /\ UNCHANGED <<qVars, lbVars, scoreVars, appVars>>

\* lines 183-212: the call after the outcome r of the second request
\* (without schema); the default segmentation when it gives nothing
AfterRetry(s, r) ==
    IF r.kind # "error" /\ _parse_and_validate_response(r) # <<>>
    THEN SegReturn(s, s.stages \o <<"retry">>, r,
                   _parse_and_validate_response(r))
    ELSE SegReturn(s, s.stages \o <<"retry", "default">>, r,
                   _create_default_segments(s.times))

RetryResponse ==
    /\ seg.pc = "call2"
    /\ \E r \in Responses : seg' = AfterRetry(seg, r)
    /\ UNCHANGED <<qVars, lbVars, scoreVars, appVars>>

\* segment_video as a function of the timestamps in the subtitle text and
\* of the outcomes r1, r2 of the two requests (r2 is used only when the
\* second request is sent): the list it returns.  No exception leaves it:
\* both requests are inside "try ... except Exception".
segment_video(times, r1, r2) ==
    LET first == AfterFirst([SegIdle EXCEPT !.pc = "call1",
                                            !.times = times], r1)
    IN  IF first.pc = "done" THEN first.out
        ELSE AfterRetry(first, r2).out

\* The outcomes of the two requests of one segment_video call, as the
\* coordinator meets them: every request fails (timeout, connection error,
\* HTTP error), or the first one answers with an array of one segment.
AnswerResponse ==
    [kind |-> "text", wrap |-> "bare", json |-> "array", field |-> "none",
     items |-> <<[isDict |-> TRUE, start |-> 0, end |-> MaxT,
                  summary |-> "str", tags |-> "list"]>>]
LlmRuns == {<<ErrorResponse, ErrorResponse>>,
            <<AnswerResponse, ErrorResponse>>}

(***************************************************************************)
(* Initial state of the queue: ProcessingQueue.__init__ has started both   *)
(* threads; the coordinator blocks in queue.get().                         *)
(***************************************************************************)
\* cause: what sent the task to the except clause, "call" for an exception
\* raised by a collaborator, "key" for a KeyError on self.results[task_id].
\* cleared: the outcome of _clear_gpu_memory for the task, "no" before it
\* ran.
\* llm: the requests to the LLM made for the task so far, "none" when there
\* was none, "failed" when every one failed, "answered" otherwise.
CoordIdle == [pc |-> "get", task |-> NoTask, i |-> 0, files |-> <<>>,
              file_results |-> <<>>, exc |-> FALSE, cause |-> "none",
              llm |-> "none", cleared |-> "no"]


InitQ ==
    /\ results = <<>>
    /\ queue = <<>>
    /\ coord = CoordIdle
    /\ now = 0
    /\ nextId = 1
    /\ started = <<>>

(***************************************************************************)
(* add_task(task_id, files, ...): the entry is stored under the lock and   *)
(* the id is put on the queue.  The callers draw a fresh uuid4 per task.   *)
(***************************************************************************)
add_task(files) ==
    /\ nextId <= MaxTasks
    /\ results' = (nextId :> NewEntry(files, now)) @@ results
    /\ queue' = Append(queue, nextId)
    /\ nextId' = nextId + 1
    /\ UNCHANGED <<coord, now, started, lbVars,
                 segVars, scoreVars, appVars>>

(***************************************************************************)
(* get_result(task_id).  An unknown id gets {"status": "not_found"} and    *)
(* nothing is stored.                                                      *)
(***************************************************************************)
get_result(id) ==
    /\ results' = IF Lookup(results, id).status # "not_found"
                  THEN [results EXCEPT ![id] = Returned(results, id, now)]
                  ELSE results
    /\ UNCHANGED <<queue, coord, now, nextId, started, lbVars,
                 segVars, scoreVars, appVars>>

(***************************************************************************)
(* _cleanup_results: one pass of the loop body (after the sleep).          *)
(***************************************************************************)
Reap ==
    /\ results' = Restrict(results, (DOMAIN results) \ Reaped(results, now))
    /\ UNCHANGED <<queue, coord, now, nextId, started, lbVars,
                 segVars, scoreVars, appVars>>

Tick ==
    /\ now < MaxTime
    /\ now' = now + 1
    /\ UNCHANGED <<results, queue, coord, nextId, started, lbVars,
                 segVars, scoreVars, appVars>>

(***************************************************************************)
(* _process_queue.  Every block under self.lock is one step and every call *)
(* of a collaborator is one step that returns or raises.  A subscript      *)
(* self.results[task_id] on an id that is not in the dict raises KeyError, *)
(* which the try statement turns into a jump to the except clause.         *)
(***************************************************************************)
\* A queue that hands out the newest id first (queue.LifoQueue).
DequeueNewest ==
    /\ coord.pc = "get"
    /\ queue # <<>>
    /\ coord' = [CoordIdle EXCEPT !.pc = "start",
                                  !.task = queue[Len(queue)]]
    /\ queue' = SubSeq(queue, 1, Len(queue) - 1)
    /\ UNCHANGED <<results, now, nextId, started, lbVars,
                 segVars, scoreVars, appVars>>

\* line 76: task_id = self.queue.get() on a queue.Queue (FIFO)
Dequeue ==
    /\ coord.pc = "get"
    /\ queue # <<>>
    /\ coord' = [CoordIdle EXCEPT !.pc = "start", !.task = Head(queue)]
    /\ queue' = Tail(queue)
    /\ UNCHANGED <<results, now, nextId, started, lbVars,
                 segVars, scoreVars, appVars>>

\* A block "with self.lock: self.results[task_id][...] = ..." at position
\* pc: the entry becomes new(entry) and control moves to next; on a missing
\* id the first subscript raises KeyError before anything is written.
LockedWrite(pc, new(_), next) ==
    /\ coord.pc = pc
    /\ IF coord.task \in DOMAIN results
       THEN /\ results' = [results EXCEPT ![coord.task] = new(@)]
            /\ coord' = next
       ELSE /\ results' = results
            /\ coord' = [coord EXCEPT !.pc = "except", !.cause = "key"]
    /\ started' = IF pc = "start" /\ coord.task \in DOMAIN results
                  THEN Append(started, coord.task) ELSE started
    /\ UNCHANGED <<queue, now, nextId, lbVars, segVars, scoreVars, appVars>>

\* lines 78-81
MarkProcessing ==
    LockedWrite("start", StartEntry,
                [coord EXCEPT !.pc = "read"])

\* lines 84-87: files, prompt and model_size are read under the lock
ReadTask ==
    /\ coord.pc = "read"
    /\ coord' = IF coord.task \in DOMAIN results
                THEN [coord EXCEPT !.pc = "init",
                                   !.files = results[coord.task].files]
                ELSE [coord EXCEPT !.pc = "except", !.cause = "key"]
    /\ UNCHANGED <<results, queue, now, nextId, started, lbVars,
                 segVars, scoreVars, appVars>>

\* The position of the loop "for i, file_path in enumerate(files)" when it
\* moves to file i (1-based), or past the last file.
LoopAt(c, i) ==
    IF i <= Len(c.files) THEN [c EXCEPT !.pc = "file_begin", !.i = i]
    ELSE [c EXCEPT !.pc = "complete"]

\* lines 90-92: the services are constructed (either constructor may
\* raise) and llm_model is read from self.results[task_id] without the lock.
InitServices ==
    /\ coord.pc = "init"
    /\ \/ coord' = IF coord.task \in DOMAIN results
                   THEN LoopAt(coord, 1)
                   ELSE [coord EXCEPT !.pc = "except", !.cause = "key"]
       \/ coord' = [coord EXCEPT !.pc = "except", !.cause = "call"]
    /\ UNCHANGED <<results, queue, now, nextId, started, lbVars,
                 segVars, scoreVars, appVars>>

WriteFileBegin(e) == ProgressEntry(e, FileProgressBase(coord.i))
WriteExtract(e)   == ProgressEntry(e, FileProgress(coord.i, 10))
WriteAsr(e)       == ProgressEntry(e, FileProgress(coord.i, 20))
WriteAlign(e)     == ProgressEntry(e, FileProgress(coord.i, 60))
WriteSegment(e)   == ProgressEntry(e, FileProgress(coord.i, 80))
WriteFileDone(e)  == ProgressEntry(e, FileProgress(coord.i, 100))

\* lines 100-107: the progress write at the start of file i, then the test
\* of the extension of file_path
FileBegin ==
    \E is_video \in BOOLEAN :
        LockedWrite("file_begin", WriteFileBegin,
                    [coord EXCEPT !.pc = IF is_video THEN "extract_w"
                                         ELSE "asr_w"])

\* lines 108-110
ExtractProgress ==
    LockedWrite("extract_w", WriteExtract,
                [coord EXCEPT !.pc = "extract"])

\* A collaborator call at position pc returns (control moves to next) or
\* raises (control moves to the except clause).
ExternalCall(pc, next) ==
    /\ coord.pc = pc
    /\ \/ coord' = next
       \/ coord' = [coord EXCEPT !.pc = "except", !.cause = "call"]
    /\ UNCHANGED <<results, queue, now, nextId, started, lbVars,
                 segVars, scoreVars, appVars>>

\* lines 111-112: VideoProcessor.extract_audio
ExtractAudio == ExternalCall("extract", [coord EXCEPT !.pc = "asr_w"])

\* lines 118-120
AsrProgress ==
    LockedWrite("asr_w", WriteAsr, [coord EXCEPT !.pc = "asr"])

\* A transcription that is only submitted: the loop goes on to the next
\* file without waiting for the job.
TranscribeNoWait ==
    ExternalCall("asr", LoopAt(coord, coord.i + 1))

\* line 121: speech_service.transcribe_audio
Transcribe ==
    ExternalCall("asr", [coord EXCEPT !.pc = IF ENABLE_ALIGNMENT
                                             THEN "align_w" ELSE "seg_w"])

\* lines 128-130
AlignProgress ==
    LockedWrite("align_w", WriteAlign,
                [coord EXCEPT !.pc = "align"])

\* lines 131-132: TextAligner(...).align
Align == ExternalCall("align", [coord EXCEPT !.pc = "seg_w"])

\* lines 138-140
SegmentProgress ==
    LockedWrite("seg_w", WriteSegment,
                [coord EXCEPT !.pc = "seg"])

\* The element appended to file_results for file i: whose it is and whether
\* its "segments" list has elements.
FileResult(i, times, run) ==
    [file |-> i,
     has_segments |-> segment_video(times, run[1], run[2]) # <<>>]

\* The requests made so far, after the run of one more segment_video call
LlmAfter(llm, run) ==
    IF llm # "answered" /\ run[1].kind = "error" /\ run[2].kind = "error"
    THEN "failed" ELSE "answered"

\* lines 141-150: llm.segment_video on result["segments"], then
\* file_results.append.  The subscript raises when the recognizer or the
\* aligner returned something without "segments".
SegmentFile ==
    \E times \in SubtitleTimes : \E run \in LlmRuns :
        ExternalCall("seg",
                     [coord EXCEPT !.pc = "file_done",
                                   !.llm = LlmAfter(@, run),
                                   !.file_results =
                                       Append(@, FileResult(coord.i, times,
                                                            run))])

\* lines 153-155, then the loop moves on
FileDone ==
    LockedWrite("file_done", WriteFileDone,
                LoopAt(coord, coord.i + 1))

WriteCompleted(e) == CompleteEntry(e, coord.file_results)

\* lines 158-162
Complete ==
    LockedWrite("complete", WriteCompleted,
                [coord EXCEPT !.pc = "finally"])

\* lines 166-177: the except clause.  Its own KeyError is not caught: the
\* finally clause runs and the exception leaves the while loop.
HandleError ==
    /\ coord.pc = "except"
    /\ IF coord.task \in DOMAIN results
       THEN /\ results' = [results EXCEPT ![coord.task] = FailEntry(@)]
            /\ coord' = [coord EXCEPT !.pc = "finally"]
       ELSE /\ results' = results
            /\ coord' = [coord EXCEPT !.pc = "finally", !.exc = TRUE]
    /\ UNCHANGED <<queue, now, nextId, started, lbVars,
                 segVars, scoreVars, appVars>>

\* lines 179-181 and 29-50: the finally clause calls _clear_gpu_memory.
\* The release either goes through (or is skipped when there is no GPU),
\* or one of the torch calls raises, which the except clause of line 49
\* catches; the call returns in both cases.
\* as ClearGpuMemory, without the try statement of lines 31-50: an error
\* of a torch call leaves the finally clause as an exception
ClearGpuMemoryUncaught ==
    /\ coord.pc = "finally"
    /\ \E outcome \in {"ok", "error"} :
           coord' = [coord EXCEPT !.pc = "task_done", !.cleared = outcome,
                                  !.exc = @ \/ outcome = "error"]
    /\ UNCHANGED <<results, queue, now, nextId, started, lbVars,
                 segVars, scoreVars, appVars>>

ClearGpuMemory ==
    /\ coord.pc = "finally"
    /\ \E outcome \in {"ok", "error"} :
           coord' = [coord EXCEPT !.pc = "task_done", !.cleared = outcome]
    /\ UNCHANGED <<results, queue, now, nextId, started, lbVars,
                 segVars, scoreVars, appVars>>

\* lines 182-183: queue.task_done(); then the next iteration, or the end
\* of the thread when an exception is propagating.
TaskDone ==
    /\ coord.pc = "task_done"
    /\ coord' = IF coord.exc THEN [CoordIdle EXCEPT !.pc = "dead"]
                ELSE CoordIdle
    /\ UNCHANGED <<results, queue, now, nextId, started, lbVars,
                 segVars, scoreVars, appVars>>

CoordStep ==
    \/ Dequeue \/ MarkProcessing \/ ReadTask \/ InitServices
    \/ FileBegin \/ ExtractProgress \/ ExtractAudio
    \/ AsrProgress \/ Transcribe \/ AlignProgress \/ Align
    \/ SegmentProgress \/ SegmentFile \/ FileDone
    \/ Complete \/ HandleError \/ ClearGpuMemory \/ TaskDone

(***************************************************************************)
(* WhisperGPULoadBalancer.                                                 *)
(***************************************************************************)
GpuIds == 0..(NumGpus - 1)
NoGpu == -1            \* None
CallIds == 1..MaxCalls
MaxWaitPolls == 60     \* for _ in range(60)

\* GPUWorker as _initialize_workers creates it
NewWorker == [is_busy |-> FALSE, current_task |-> NoTask,
              total_jobs |-> 0, total_time |-> 0]

\* GPUWorker.average_time is total_time / total_jobs, or 0.0 without jobs;
\* two averages are compared as fractions.
AvgNum(w) == IF w.total_jobs > 0 THEN w.total_time ELSE 0
AvgDen(w) == IF w.total_jobs > 0 THEN w.total_jobs ELSE 1
AvgLess(a, b) == AvgNum(a) * AvgDen(b) < AvgNum(b) * AvgDen(a)

\* as get_best_available_gpu, but the first idle worker in dict order is
\* taken, whatever its average_time
get_first_available_gpu(ws) ==
    LET available_workers == {g \in GpuIds : ~ws[g].is_busy}
    IN  IF available_workers = {} THEN NoGpu
        ELSE CHOOSE g \in available_workers :
                 \A h \in available_workers : g <= h

\* get_best_available_gpu: min() over the idle workers in dict order keeps
\* the first worker of least average_time.
get_best_available_gpu(ws) ==
    LET available_workers == {g \in GpuIds : ~ws[g].is_busy}
    IN  IF available_workers = {} THEN NoGpu
        ELSE CHOOSE g \in available_workers :
                 \A h \in available_workers :
                     \/ AvgLess(ws[g], ws[h])
                     \/ ~AvgLess(ws[h], ws[g]) /\ g <= h

NewCall == [pc |-> "new", gpu |-> NoGpu, polls |-> 0, elapsed |-> 0]

\* transcribe_multiple_files(audio_files) has not been called.  When it is
\* called on n paths, path i is the argument of call i, which becomes job i
\* of the executor.
BatchIdle == [pc |-> "idle", n |-> 0, results |-> <<>>]

InitLB ==
    /\ workers = [g \in GpuIds |-> NewWorker]
    /\ calls = [c \in CallIds |-> NewCall]
    /\ batch = BatchIdle

\* the calls that are jobs of the executor
PoolJobs == 1..batch.n

\* call c has ended: it returned a result or raised
Finished(c) == calls[c].pc \in {"returned", "raised", "nocap"}

\* ThreadPoolExecutor(max_workers=len(gpu_ids)), line 65: the jobs start in
\* the order of their submission, each when one of the threads is free
ExecutorStarts(c) ==
    c \in PoolJobs =>
        /\ \A d \in PoolJobs : d < c => calls[d].pc # "new"
        /\ Cardinality({d \in PoolJobs : calls[d].pc # "new"
                                          /\ ~Finished(d)}) < NumGpus

\* transcribe_audio, line 159: the first pick
Submit(c) ==
    /\ calls[c].pc = "new"
    /\ ExecutorStarts(c)
    /\ LET g == get_best_available_gpu(workers)
       IN  calls' = [calls EXCEPT ![c].gpu = g,
                                  ![c].pc = IF g = NoGpu THEN "wait"
                                            ELSE "picked"]
    /\ UNCHANGED <<workers, batch, qVars, segVars, scoreVars, appVars>>

\* as PollWait, but the loop makes one round more
PollWaitOneMore(c) ==
    /\ calls[c].pc = "wait"
    /\ calls[c].polls < MaxWaitPolls + 1
    /\ LET g == get_best_available_gpu(workers)
       IN  calls' = [calls EXCEPT
                ![c].polls = @ + 1,
                ![c].gpu = g,
                ![c].pc = IF g # NoGpu THEN "picked"
                          ELSE IF calls[c].polls + 1 = MaxWaitPolls + 1
                               THEN "nocap" ELSE "wait"]
    /\ UNCHANGED <<workers, batch, qVars, segVars, scoreVars, appVars>>

\* lines 164-171: one round of the wait loop (sleep, pick again); after
\* the last round without a worker the call raises SpeechRecognitionError.
PollWait(c) ==
    /\ calls[c].pc = "wait"
    /\ calls[c].polls < MaxWaitPolls
    /\ LET g == get_best_available_gpu(workers)
       IN  calls' = [calls EXCEPT
                ![c].polls = @ + 1,
                ![c].gpu = g,
                ![c].pc = IF g # NoGpu THEN "picked"
                          ELSE IF calls[c].polls + 1 = MaxWaitPolls
                               THEN "nocap" ELSE "wait"]
    /\ UNCHANGED <<workers, batch, qVars, segVars, scoreVars, appVars>>

\* _transcribe_on_gpu, lines 180-183
MarkBusy(c) ==
    /\ calls[c].pc = "picked"
    /\ workers' = [workers EXCEPT ![calls[c].gpu].is_busy = TRUE,
                                  ![calls[c].gpu].current_task = c]
    /\ calls' = [calls EXCEPT ![c].pc = "setup"]
    /\ UNCHANGED <<batch, qVars, segVars, scoreVars, appVars>>

\* lines 195-196: entering torch.cuda.device(gpu_id) succeeds or raises
SetupDevice(c) ==
    /\ calls[c].pc = "setup"
    /\ \/ calls' = [calls EXCEPT ![c].pc = "run"]
       \/ calls' = [calls EXCEPT ![c].pc = "fin_err"]
    /\ UNCHANGED <<workers, batch, qVars, segVars, scoreVars, appVars>>

\* lines 208-214: recognizer.transcribe returns after processing_time
\* seconds or raises; the inner cleanup swallows its own errors.
RunJob(c) ==
    /\ calls[c].pc = "run"
    /\ \/ \E t \in 1..MaxJobTime :
              calls' = [calls EXCEPT ![c].pc = "stats", ![c].elapsed = t]
       \/ calls' = [calls EXCEPT ![c].pc = "fin_err"]
    /\ UNCHANGED <<workers, batch, qVars, segVars, scoreVars, appVars>>

\* lines 217-219
RecordStats(c) ==
    /\ calls[c].pc = "stats"
    /\ workers' = [workers EXCEPT
                      ![calls[c].gpu].total_jobs = @ + 1,
                      ![calls[c].gpu].total_time = @ + calls[c].elapsed]
    /\ calls' = [calls EXCEPT ![c].pc = "fin_ok"]
    /\ UNCHANGED <<batch, qVars, segVars, scoreVars, appVars>>

\* as ClearBusy, but the flag is cleared after a successful transcription
\* only, not in a finally clause
ClearBusyOnSuccess(c) ==
    /\ calls[c].pc \in {"fin_ok", "fin_err"}
    /\ workers' = IF calls[c].pc = "fin_ok"
                  THEN [workers EXCEPT ![calls[c].gpu].is_busy = FALSE,
                                       ![calls[c].gpu].current_task = NoTask]
                  ELSE workers
    /\ calls' = [calls EXCEPT ![c].pc = IF calls[c].pc = "fin_ok"
                                        THEN "returned" ELSE "raised"]
    /\ UNCHANGED <<batch, qVars, segVars, scoreVars, appVars>>

\* lines 236-239: the finally clause, then the return or the re-raise
ClearBusy(c) ==
    /\ calls[c].pc \in {"fin_ok", "fin_err"}
    /\ workers' = [workers EXCEPT ![calls[c].gpu].is_busy = FALSE,
                                  ![calls[c].gpu].current_task = NoTask]
    /\ calls' = [calls EXCEPT ![c].pc = IF calls[c].pc = "fin_ok"
                                        THEN "returned" ELSE "raised"]
    /\ UNCHANGED <<batch, qVars, segVars, scoreVars, appVars>>

\* The job of call c is in flight on its worker: from the block that
\* marks the worker busy to the finally clause that clears it.
InFlight(c) == calls[c].pc \in {"setup", "run", "stats", "fin_ok", "fin_err"}

\* transcribe_multiple_files, lines 243-257: [] for no path; otherwise
\* every path is submitted to the executor
transcribe_multiple_files(n) ==
    /\ batch.pc = "idle"
    /\ \A c \in 1..n : calls[c].pc = "new"
    /\ batch' = [pc |-> IF n = 0 THEN "done" ELSE "collect", n |-> n,
                 results |-> <<>>]
    /\ UNCHANGED <<workers, calls, qVars, segVars, scoreVars, appVars>>

\* the element of results for the job of path i: what the job returned (the
\* transcription of path i), or the error record of lines 275-279
JobResult(i) == [audio_path |-> i, error |-> "none"]
ErrorRecord(i, why) == [audio_path |-> i, error |-> why]

\* the loop of lines 260-279 after one more element; the list is returned
\* after the last one
Collected(record) ==
    [batch EXCEPT !.results = Append(@, record),
                  !.pc = IF Len(batch.results) + 1 = batch.n THEN "done"
                         ELSE "collect"]

\* as CollectResult, but the results are taken as the jobs end
\* (as_completed), not in the order of futures
CollectAsCompleted ==
    /\ batch.pc = "collect"
    /\ \E j \in PoolJobs :
          /\ Finished(j)
          /\ \A k \in 1..Len(batch.results) :
                 batch.results[k].audio_path # j
          /\ batch' = Collected(IF calls[j].pc = "returned"
                                THEN JobResult(j)
                                ELSE ErrorRecord(j, "failed"))
    /\ UNCHANGED <<workers, calls, qVars, segVars, scoreVars, appVars>>

\* lines 260-279: future.result() of the next future in the list, whose job
\* has ended: its result, or the error record when it raised
CollectResult ==
    /\ batch.pc = "collect"
    /\ LET i == Len(batch.results) + 1
       IN  /\ Finished(i)
           /\ batch' = Collected(IF calls[i].pc = "returned"
                                 THEN JobResult(i)
                                 ELSE ErrorRecord(i, "failed"))
    /\ UNCHANGED <<workers, calls, qVars, segVars, scoreVars, appVars>>

\* lines 262 and 269-279: the job of the next future has not ended within
\* the timeout; future.result raises TimeoutError
CollectTimeout ==
    /\ batch.pc = "collect"
    /\ LET i == Len(batch.results) + 1
       IN  /\ ~Finished(i)
           /\ batch' = Collected(ErrorRecord(i, "timeout"))
    /\ UNCHANGED <<workers, calls, qVars, segVars, scoreVars, appVars>>


(***************************************************************************)
(* normalize_relevancy_score (web/gradio_ui.py).  Scores are in            *)
(* thousandths: 1.0 is 1000.  A score is None, a value float() cannot      *)
(* convert, or a number.                                                   *)
(***************************************************************************)
NoneScore == [kind |-> "none", v |-> 0]
BadScore  == [kind |-> "bad", v |-> 0]
Num(v) == [kind |-> "num", v |-> v]

\* the numbers drawn: every thousandth from just below 0 to MaxFine/1000
\* and around 10.0, every hundredth up to MaxCoarse/100
ScoreInputs ==
    {NoneScore, BadScore}
    \cup {Num(v) : v \in (-3)..MaxFine}
    \cup {Num(v) : v \in 9990..10020}
    \cup {Num(10 * k) : k \in 0..MaxCoarse}

\* round(x, 1) of x = v/(10*u): the tenths, in thousandths.  The float that
\* is rounded is the binary value nearest to x; where x lies exactly between
\* two tenths that value is on either side, and so is the result.
RoundTenth(v, u) ==
    LET q == v \div u
        r == v % u
    IN  IF 2 * r < u THEN {100 * q}
        ELSE IF 2 * r > u THEN {100 * (q + 1)}
        ELSE {100 * q, 100 * (q + 1)}

\* as normalize_relevancy_score, but exactly 1.0 is taken as a score that
\* is already on the 1-10 scale
normalize_one_passes(score) ==
    IF score.kind # "num" THEN {5000}
    ELSE LET v == score.v IN
         IF v = 0 THEN {1000}
         ELSE IF 10 <= v /\ v <= 990 THEN RoundTenth(9 * v + 1000, 100)
         ELSE IF 1000 <= v /\ v <= 10000 THEN RoundTenth(v, 100)
         ELSE IF 10010 <= v /\ v <= 100000
              THEN RoundTenth(9 * v + 100000, 10000)
         ELSE IF v < 0 THEN {1000}
         ELSE {10000}

\* normalize_relevancy_score(score): the set of values it can return
normalize_relevancy_score(score) ==
    IF score.kind # "num" THEN {5000}
    ELSE LET v == score.v IN
         IF v = 0 THEN {1000}
         ELSE IF 10 <= v /\ v <= 990 THEN RoundTenth(9 * v + 1000, 100)
         ELSE IF v = 1000 THEN {10000}
         ELSE IF 1010 <= v /\ v <= 10000 THEN RoundTenth(v, 100)
         ELSE IF 10010 <= v /\ v <= 100000
              THEN RoundTenth(9 * v + 100000, 10000)
         ELSE IF v < 0 THEN {1000}
         ELSE {10000}

NormIdle == [pc |-> "idle", x |-> NoneScore, once |-> 0, twice |-> 0]

\* normalize_relevancy_score(x) for a score x
NormalizeScore ==
    /\ norm.pc = "idle"
    /\ \E x \in ScoreInputs : \E y \in normalize_relevancy_score(x) :
           norm' = [NormIdle EXCEPT !.pc = "once", !.x = x, !.once = y]
    /\ UNCHANGED <<qVars, lbVars, segVars, narr, appVars>>

\* normalize_relevancy_score applied to the value it returned
NormalizeAgain ==
    /\ norm.pc = "once"
    /\ \E z \in normalize_relevancy_score(Num(norm.once)) :
           norm' = [norm EXCEPT !.pc = "twice", !.twice = z]
    /\ UNCHANGED <<qVars, lbVars, segVars, narr, appVars>>

(***************************************************************************)
(* The narrative segmentation of LLMProcessor: the candidates built from   *)
(* the "relevant_segments" of an LLM answer (lines 733-780) and the merger *)
(* _merge_and_extend_enhanced_segments.  Times are in seconds, scores in   *)
(* units, the composite score in tenths (6 * relevance + 4 * engagement).  *)
(* Of a segment the model keeps the times and the three scores.            *)
(***************************************************************************)
TimeStep == 3
MERGE_GAP == 3          \* segment['start'] <= current['end'] + 3
MIN_DURATION == 20      \* if duration < 20
EXTEND_BEFORE == 5      \* segment['start'] - 5
EXTEND_AFTER == 10      \* segment['end'] + 10
MIN_RELEVANCE == 5      \* if relevance_score >= 5

TimePoints == {TimeStep * k : k \in 0..MaxSlot}
LastPoint == TimeStep * MaxSlot
RelevanceVals == {Missing, 3, 5, 10}
EngagementVals == {5, 10}

\* one element of "relevant_segments", with start_time < end_time
SegmentData ==
    {d \in [start : TimePoints, end : TimePoints,
            relevance_score : RelevanceVals,
            engagement_score : EngagementVals] : d.start < d.end}
SegmentDataLists == UNION {[1..k -> SegmentData] : k \in 0..MaxCands}

\* max(s['end'] for s in sentence_segments), NoTime when the list is empty
MaxTimes == {NoTime, LastPoint}

\* lines 746-763: the elements that become candidates
KeptData(d) ==
    /\ d.relevance_score # Missing
    /\ 1 <= d.relevance_score /\ d.relevance_score <= 10
    /\ d.relevance_score >= MIN_RELEVANCE

\* lines 759-772
EnhancedSegment(d) ==
    [start |-> d.start, end |-> d.end,
     relevance_score |-> d.relevance_score,
     engagement_score |-> d.engagement_score,
     composite_score |-> 6 * d.relevance_score + 4 * d.engagement_score]

enhanced_segments(data) ==
    LET kept == SelectSeq(data, KeptData)
    IN  [k \in 1..Len(kept) |-> EnhancedSegment(kept[k])]

\* list.sort is stable: element i comes after the elements that its key
\* does not precede, in their order.
\* key (-composite_score, start), line 928
FirstBefore(a, b) ==
    \/ a.composite_score > b.composite_score
    \/ a.composite_score = b.composite_score /\ a.start < b.start

SortedForMerge(segs) ==
    LET rank(i) == Cardinality({j \in 1..Len(segs) :
                        \/ FirstBefore(segs[j], segs[i])
                        \/ ~FirstBefore(segs[i], segs[j]) /\ j < i})
    IN  [p \in 1..Len(segs) |->
            segs[CHOOSE i \in 1..Len(segs) : rank(i) = p - 1]]

\* key composite_score, reverse=True (line 981): equal elements keep their
\* order
SortedByComposite(segs) ==
    LET rank(i) == Cardinality({j \in 1..Len(segs) :
                        \/ segs[j].composite_score > segs[i].composite_score
                        \/ segs[j].composite_score = segs[i].composite_score
                           /\ j < i})
    IN  [p \in 1..Len(segs) |->
            segs[CHOOSE i \in 1..Len(segs) : rank(i) = p - 1]]

\* lines 937-944: segment is merged into current
Absorb(current, segment) ==
    [current EXCEPT
        !.end = Max(current.end, segment.end),
        !.relevance_score = Max(current.relevance_score,
                                segment.relevance_score),
        !.engagement_score = Max(current.engagement_score,
                                 segment.engagement_score),
        !.composite_score = Max(current.composite_score,
                                segment.composite_score)]

\* lines 933-958: the walk over segments[1:]
RECURSIVE MergeWalk(_, _, _)
MergeWalk(rest, current, merged) ==
    IF rest = <<>> THEN Append(merged, current)
    ELSE IF Head(rest).start <= current.end + MERGE_GAP
    THEN MergeWalk(Tail(rest), Absorb(current, Head(rest)), merged)
    ELSE MergeWalk(Tail(rest), Head(rest), Append(merged, current))

\* lines 961-975: a segment shorter than 20 seconds is extended
Extended(segment, max_time) ==
    IF segment.end - segment.start < MIN_DURATION
    THEN [segment EXCEPT
             !.start = Max(0, segment.start - EXTEND_BEFORE),
             !.end = IF max_time # NoTime
                     THEN Min(segment.end + EXTEND_AFTER, max_time)
                     ELSE segment.end + EXTEND_AFTER]
    ELSE segment

_merge_and_extend_enhanced_segments(segments, max_time) ==
    IF segments = <<>> THEN <<>>
    ELSE LET sorted == SortedForMerge(segments)
             merged == MergeWalk(Tail(sorted), Head(sorted), <<>>)
         IN  SortedByComposite([k \in 1..Len(merged) |->
                                   Extended(merged[k], max_time)])

NarrIdle == [pc |-> "idle", data |-> <<>>, max_time |-> NoTime,
             fed |-> <<>>, out |-> <<>>]

InitScore ==
    /\ norm = NormIdle
    /\ narr = NarrIdle

\* _find_relevant_segments_with_enhanced_llm on an answer whose
\* "relevant_segments" is data (lines 733-777): an empty list is returned
\* at once, otherwise the candidates are built
FindRelevantSegments ==
    /\ narr.pc = "idle"
    /\ \E data \in SegmentDataLists : \E max_time \in MaxTimes :
           narr' = [pc |-> IF data = <<>> THEN "done" ELSE "merge",
                    data |-> data, max_time |-> max_time,
                    fed |-> enhanced_segments(data), out |-> <<>>]
    /\ UNCHANGED <<qVars, lbVars, segVars, norm, appVars>>

\* lines 780-781: the merger is applied and its result returned
MergeAndExtend ==
    /\ narr.pc = "merge"
    /\ narr' = [narr EXCEPT
                   !.pc = "done",
                   !.out = _merge_and_extend_enhanced_segments(narr.fed,
                                                               narr.max_time)]
    /\ UNCHANGED <<qVars, lbVars, segVars, norm, appVars>>

(***************************************************************************)
(* config/settings.py: the settings cache.  get_settings and               *)
(* reload_settings are called by any thread; _settings_lock is a           *)
(* threading.Lock, which is not reentrant: an acquire blocks while the     *)
(* lock is held, also when the holder is the calling thread.               *)
(***************************************************************************)
Threads == 1..NumThreads
NoThread == 0
None == "None"
TheConfig == "config"          \* get_config(): _config_manager.config

CfgIdle == [pc |-> "idle", op |-> "none", ret |-> None]

InitCfg ==
    /\ _settings_instance = None
    /\ _settings_lock = NoThread
    /\ cfg = [t \in Threads |-> CfgIdle]

otherThanCfg == <<qVars, lbVars, segVars, scoreVars, diVars, glbVars>>

\* a thread calls get_settings()
CallGetSettings(t) ==
    /\ cfg[t].pc = "idle"
    /\ cfg' = [cfg EXCEPT ![t] = [pc |-> "test", op |-> "get", ret |-> None]]
    /\ UNCHANGED <<_settings_instance, _settings_lock, otherThanCfg>>

\* a thread calls reload_settings(); line 531 is next
CallReloadSettings(t) ==
    /\ cfg[t].pc = "idle"
    /\ cfg' = [cfg EXCEPT ![t] = [pc |-> "reload_acquire", op |-> "reload",
                                  ret |-> None]]
    /\ UNCHANGED <<_settings_instance, _settings_lock, otherThanCfg>>

\* line 531: with _settings_lock
ReloadAcquire(t) ==
    /\ cfg[t].pc = "reload_acquire"
    /\ _settings_lock = NoThread
    /\ _settings_lock' = t
    /\ cfg' = [cfg EXCEPT ![t].pc = "reload_clear"]
    /\ UNCHANGED <<_settings_instance, otherThanCfg>>

\* lines 532-533: the cache is cleared and get_settings() is called with
\* the lock held
ReloadClear(t) ==
    /\ cfg[t].pc = "reload_clear"
    /\ _settings_instance' = None
    /\ cfg' = [cfg EXCEPT ![t].pc = "test"]
    /\ UNCHANGED <<_settings_lock, otherThanCfg>>

\* line 519: the first test, without the lock
TestInstance(t) ==
    /\ cfg[t].pc = "test"
    /\ cfg' = [cfg EXCEPT ![t].pc = IF _settings_instance = None
                                    THEN "acquire" ELSE "return"]
    /\ UNCHANGED <<_settings_instance, _settings_lock, otherThanCfg>>

\* line 520: with _settings_lock
AcquireSettingsLock(t) ==
    /\ cfg[t].pc = "acquire"
    /\ _settings_lock = NoThread
    /\ _settings_lock' = t
    /\ cfg' = [cfg EXCEPT ![t].pc = "locked"]
    /\ UNCHANGED <<_settings_instance, otherThanCfg>>

\* lines 521-522, then the end of the with block
SetInstance(t) ==
    /\ cfg[t].pc = "locked"
    /\ _settings_instance' = IF _settings_instance = None THEN TheConfig
                             ELSE _settings_instance
    /\ _settings_lock' = NoThread
    /\ cfg' = [cfg EXCEPT ![t].pc = "return"]
    /\ UNCHANGED otherThanCfg

\* line 524: return _settings_instance; in reload_settings the value is
\* returned at once and the with block of line 531 ends
ReturnInstance(t) ==
    /\ cfg[t].pc = "return"
    /\ cfg' = [cfg EXCEPT ![t].pc = "idle", ![t].ret = _settings_instance]
    /\ _settings_lock' = IF cfg[t].op = "reload" THEN NoThread
                         ELSE _settings_lock
    /\ UNCHANGED <<_settings_instance, otherThanCfg>>

(***************************************************************************)
(* core/dependency_injection.py: a ServiceContainer with one service type, *)
(* registered by implementation type or by factory with one of the three   *)
(* lifetimes, and one ServiceScope per thread.  The implementation has no  *)
(* constructor dependencies.  Instances are numbered in the order of their *)
(* construction; 0 stands for no instance.                                 *)
(***************************************************************************)
Lifetimes == {"singleton", "transient", "scoped"}
Unregistered == [lifetime |-> "none", by |-> "none"]
NoInstance == 0

DiIdle == [pc |-> "idle", via |-> "none", got |-> NoInstance]

InitDI ==
    /\ _services = Unregistered
    /\ _singletons = NoInstance
    /\ _lock = NoThread
    /\ _scoped_services = [t \in Threads |-> NoInstance]
    /\ built = 0
    /\ di = [t \in Threads |-> DiIdle]

otherThanDi == <<qVars, lbVars, segVars, scoreVars, cfgVars, glbVars>>

\* register_singleton, register_transient, register_scoped (by "type") or
\* register_factory (by "factory")
register(lifetime, by) ==
    /\ _services = Unregistered
    /\ _services' = [lifetime |-> lifetime, by |-> by]
    /\ UNCHANGED <<_singletons, _lock, _scoped_services, built, di,
                   otherThanDi>>

\* ServiceContainer.get_service, lines 149-156
ContainerGetService(t) ==
    /\ di[t].pc = "idle"
    /\ built < MaxBuilt
    /\ di' = [di EXCEPT ![t] =
                 [pc |-> CASE _services = Unregistered -> "raised"
                           [] _services.lifetime = "singleton" -> "fast"
                           [] OTHER -> "create",
                  via |-> "container", got |-> NoInstance]]
    /\ UNCHANGED <<_services, _singletons, _lock, _scoped_services, built,
                   otherThanDi>>

\* ServiceScope.get_service, lines 55-67, on the scope of thread t (which
\* is not disposed); the scoped instance is returned when there is one
ScopeGetService(t) ==
    /\ di[t].pc = "idle"
    /\ built < MaxBuilt
    /\ di' = [di EXCEPT ![t] =
                 IF _services = Unregistered
                 THEN [pc |-> "raised", via |-> "scope", got |-> NoInstance]
                 ELSE IF _services.lifetime = "scoped"
                 THEN IF _scoped_services[t] # NoInstance
                      THEN [pc |-> "done", via |-> "scope",
                            got |-> _scoped_services[t]]
                      ELSE [pc |-> "create_scoped", via |-> "scope",
                            got |-> NoInstance]
                 ELSE [pc |-> "create", via |-> "scope",
                       got |-> NoInstance]]
    /\ UNCHANGED <<_services, _singletons, _lock, _scoped_services, built,
                   otherThanDi>>

\* _get_singleton, lines 166-167: the test without the lock
FastPath(t) ==
    /\ di[t].pc = "fast"
    /\ di' = [di EXCEPT ![t] =
                 IF _singletons # NoInstance
                 THEN [@ EXCEPT !.pc = "done", !.got = _singletons]
                 ELSE [@ EXCEPT !.pc = "acquire"]]
    /\ UNCHANGED <<_services, _singletons, _lock, _scoped_services, built,
                   otherThanDi>>

\* line 169: with self._lock
AcquireContainerLock(t) ==
    /\ di[t].pc = "acquire"
    /\ _lock = NoThread
    /\ _lock' = t
    /\ di' = [di EXCEPT ![t].pc = "slow"]
    /\ UNCHANGED <<_services, _singletons, _scoped_services, built,
                   otherThanDi>>

\* lines 171-176: the second test, under the lock, and the construction
SlowPath(t) ==
    /\ di[t].pc = "slow"
    /\ IF _singletons # NoInstance
       THEN /\ di' = [di EXCEPT ![t].pc = "release", ![t].got = _singletons]
            /\ UNCHANGED <<_singletons, built>>
       ELSE /\ built' = built + 1
            /\ _singletons' = built + 1
            /\ di' = [di EXCEPT ![t].pc = "release", ![t].got = built + 1]
    /\ UNCHANGED <<_services, _lock, _scoped_services, otherThanDi>>

\* the end of the with block of line 169
ReleaseContainerLock(t) ==
    /\ di[t].pc = "release"
    /\ _lock' = NoThread
    /\ di' = [di EXCEPT ![t].pc = "done"]
    /\ UNCHANGED <<_services, _singletons, _scoped_services, built,
                   otherThanDi>>

\* _create_instance, lines 180-190, for a descriptor without an instance:
\* the factory is called or the implementation type is constructed; the
\* scope keeps the instance of a scoped service (line 64)
_create_instance(t) ==
    /\ di[t].pc \in {"create", "create_scoped"}
    /\ built' = built + 1
    /\ di' = [di EXCEPT ![t].pc = "done", ![t].got = built + 1]
    /\ _scoped_services' = IF di[t].pc = "create_scoped"
                           THEN [_scoped_services EXCEPT ![t] = built + 1]
                           ELSE _scoped_services
    /\ UNCHANGED <<_services, _singletons, _lock, otherThanDi>>

\* the call returns its instance or raises ValueError; got keeps the
\* instance until the next call of the thread
DiReturn(t) ==
    /\ di[t].pc \in {"done", "raised"}
    /\ di' = [di EXCEPT ![t].pc = "idle"]
    /\ UNCHANGED <<_services, _singletons, _lock, _scoped_services, built,
                   otherThanDi>>

(***************************************************************************)
(* whisper_gpu_load_balancer.py, lines 324-350: the global balancer.       *)
(* Balancers are numbered in the order of their construction; 0 stands for *)
(* None.  settings.gpu.whisper_gpu_ids is not empty.                       *)
(***************************************************************************)
NoBalancer == 0

GetterIdle == [pc |-> "idle", mine |-> NoBalancer, ret |-> NoBalancer]

InitGlb ==
    /\ _gpu_load_balancer = NoBalancer
    /\ balancers = 0
    /\ since_shutdown = 0
    /\ getter = [t \in Threads |-> GetterIdle]

otherThanGlb == <<qVars, lbVars, segVars, scoreVars, cfgVars, diVars>>

\* a thread calls get_whisper_gpu_load_balancer()
CallGetter(t) ==
    /\ getter[t].pc = "idle"
    /\ balancers < MaxBalancers
    /\ getter' = [getter EXCEPT ![t] = [GetterIdle EXCEPT !.pc = "test"]]
    /\ UNCHANGED <<_gpu_load_balancer, balancers, since_shutdown,
                   otherThanGlb>>

\* line 332: if _gpu_load_balancer is None
TestGlobal(t) ==
    /\ getter[t].pc = "test"
    /\ getter' = [getter EXCEPT ![t].pc =
                     IF _gpu_load_balancer = NoBalancer THEN "construct"
                     ELSE "return"]
    /\ UNCHANGED <<_gpu_load_balancer, balancers, since_shutdown,
                   otherThanGlb>>

\* lines 333-338, right-hand side: WhisperGPULoadBalancer(gpu_ids)
ConstructBalancer(t) ==
    /\ getter[t].pc = "construct"
    /\ balancers' = balancers + 1
    /\ since_shutdown' = since_shutdown + 1
    /\ getter' = [getter EXCEPT ![t].pc = "assign",
                                ![t].mine = balancers + 1]
    /\ UNCHANGED <<_gpu_load_balancer, otherThanGlb>>

\* line 338: the assignment to the global
AssignGlobal(t) ==
    /\ getter[t].pc = "assign"
    /\ _gpu_load_balancer' = getter[t].mine
    /\ getter' = [getter EXCEPT ![t].pc = "return"]
    /\ UNCHANGED <<balancers, since_shutdown, otherThanGlb>>

\* line 341: return _gpu_load_balancer
ReturnGlobal(t) ==
    /\ getter[t].pc = "return"
    /\ getter' = [getter EXCEPT ![t].pc = "idle",
                                ![t].ret = _gpu_load_balancer]
    /\ UNCHANGED <<_gpu_load_balancer, balancers, since_shutdown,
                   otherThanGlb>>

\* lines 344-350
shutdown_whisper_gpu_load_balancer ==
    /\ _gpu_load_balancer' = NoBalancer
    /\ since_shutdown' = 0
    /\ UNCHANGED <<balancers, getter, otherThanGlb>>

(***************************************************************************)
(* The specifications.                                                     *)
(***************************************************************************)
Init == InitQ /\ InitLB /\ InitSeg /\ InitScore /\ InitCfg /\ InitDI /\ InitGlb

NextQ ==
    \/ \E files \in FileLists : add_task(files)
    \/ \E id \in TaskIds : get_result(id)
    \/ Reap
    \/ Tick
    \/ CoordStep

NextLB ==
    \/ \E c \in CallIds :
           \/ Submit(c) \/ PollWait(c) \/ MarkBusy(c) \/ SetupDevice(c)
           \/ RunJob(c) \/ RecordStats(c) \/ ClearBusy(c)
    \/ \E n \in 0..MaxCalls : transcribe_multiple_files(n)
    \/ CollectResult
    \/ CollectTimeout

NextSeg ==
    \/ \E times \in SubtitleTimes : SegmentVideoCall(times)
    \/ FirstResponse
    \/ RetryResponse

NextNorm ==
    \/ NormalizeScore
    \/ NormalizeAgain

NextMerge ==
    \/ FindRelevantSegments
    \/ MergeAndExtend

NextSettings ==
    \E t \in Threads :
        \/ CallGetSettings(t) \/ CallReloadSettings(t)
        \/ ReloadAcquire(t) \/ ReloadClear(t)
        \/ TestInstance(t) \/ AcquireSettingsLock(t) \/ SetInstance(t)
        \/ ReturnInstance(t)

NextDI ==
    \/ \E lifetime \in Lifetimes : \E by \in {"type", "factory"} :
           register(lifetime, by)
    \/ \E t \in Threads :
           \/ ContainerGetService(t) \/ ScopeGetService(t)
           \/ FastPath(t) \/ AcquireContainerLock(t) \/ SlowPath(t)
           \/ ReleaseContainerLock(t) \/ _create_instance(t) \/ DiReturn(t)

NextGlobal ==
    \/ \E t \in Threads :
           \/ CallGetter(t) \/ TestGlobal(t) \/ ConstructBalancer(t)
           \/ AssignGlobal(t) \/ ReturnGlobal(t)
    \/ shutdown_whisper_gpu_load_balancer

SpecQ   == Init /\ [][NextQ]_vars
SpecLB  == Init /\ [][NextLB]_vars
SpecSeg == Init /\ [][NextSeg]_vars
SpecNorm == Init /\ [][NextNorm]_vars
SpecMerge == Init /\ [][NextMerge]_vars
SpecSettings == Init /\ [][NextSettings]_vars
SpecDI == Init /\ [][NextDI]_vars
SpecGlobal == Init /\ [][NextGlobal]_vars

(***************************************************************************)
(* Properties.                                                             *)
(***************************************************************************)

\* C1: no worker ever has two jobs in flight at once: two different
\* transcribe_audio calls whose jobs are both between the start (the worker
\* is marked busy) and the end (the finally clause) run on different workers.
C1_OneJobPerWorker ==
    \A c1 \in CallIds : \A c2 \in CallIds :
        (c1 # c2 /\ InFlight(c1) /\ InFlight(c2))
            => calls[c1].gpu # calls[c2].gpu

\* C2: one task's failure never blocks the queue: the coordinator loop
\* keeps running after any task ends, that is, the _process_queue thread
\* never terminates.
C2_CoordinatorKeepsRunning == coord.pc # "dead"

\* The positions of the coordinator at which it updates the entry of its
\* task: progress, completion, failure.
UpdatePcs == {"start", "file_begin", "extract_w", "asr_w", "align_w",
              "seg_w", "file_done", "complete", "except"}

\* The step raises KeyError: control jumps to the except clause, or, from
\* the except clause, the exception propagates.
KeyErrorRaised ==
    \/ coord.pc # "except" /\ coord'.pc = "except"
    \/ coord.pc = "except" /\ coord'.exc

\* C3: a progress, completion or failure update addressed to a task id that
\* is not in the store is a no-op: it raises no error, creates no entry for
\* that id and leaves every other entry unchanged.
C3_UnknownIdUpdateIsNoOp ==
    [][(coord.pc \in UpdatePcs /\ coord.task \notin DOMAIN results
            /\ coord' # coord)
        => (~KeyErrorRaised /\ results' = results)]_vars

\* C4: immediately after every pass of the reaper the store holds at most
\* max_results entries.
C4_ReapLeavesAtMostCap ==
    [][Reap => Cardinality(DOMAIN results') <= max_results]_vars

\* The entries a pass must remove: those older than the TTL and, of the
\* entries left, the least recently accessed ones above the cap.
ShouldReap(res, t) ==
    LET left == (DOMAIN res) \ Expired(res, t)
        srt  == SortedFrom(res, left)
        surplus == Max(Cardinality(left) - max_results, 0)
    IN  Expired(res, t) \cup {srt[k] : k \in 1..surplus}

\* C5: a pass of the reaper removes an entry if and only if its age (since
\* last_accessed, or since timestamp when it was never read) is greater than
\* the TTL, or it is among the least recently accessed surplus entries left
\* above the cap after the age-based removal; the status plays no part.
C5_ReapRemovesExactlyStaleAndSurplus ==
    [][Reap => (DOMAIN results) \ (DOMAIN results') = ShouldReap(results, now)]_vars

\* C6: for every task in the store, result is set if and only if the status
\* is completed, and error is set if and only if the status is error (so
\* neither is set while the task is queued or processing).
C6_ResultAndErrorMatchStatus ==
    \A id \in DOMAIN results :
        /\ results[id].hasResult <=> results[id].status = "completed"
        /\ results[id].hasError <=> results[id].status = "error"

\* C6 witness: the store holds a completed task with its result and a
\* failed task with its error.
C6_Witness ==
    \E a \in DOMAIN results : \E b \in DOMAIN results :
        /\ results[a].status = "completed" /\ results[a].hasResult
        /\ results[b].status = "error" /\ results[b].hasError

StatusSteps == {<<"queued", "processing">>, <<"processing", "completed">>,
                <<"processing", "error">>}

\* C7: the status of a task changes only along queued -> processing,
\* processing -> completed and processing -> error; completed and error are
\* terminal.
C7_StatusTransitions ==
    [][\A id \in (DOMAIN results) \cap (DOMAIN results') :
          \/ results'[id].status = results[id].status
          \/ <<results[id].status, results'[id].status>> \in StatusSteps]_vars

\* C7 witness: a task that reached a terminal status is still in the store
\* while the coordinator is at work on a later task.
C7_Witness ==
    \E id \in DOMAIN results :
        /\ results[id].status \in {"completed", "error"}
        /\ coord.task # NoTask /\ coord.task # id
        /\ coord.pc \in UpdatePcs

\* C8: within one task progress never decreases: every write of progress is
\* greater than or equal to the value it replaces.
C8_ProgressNeverDecreases ==
    [][\A id \in (DOMAIN results) \cap (DOMAIN results') :
          results'[id].progress >= results[id].progress]_vars

\* C9: progress = 1.0 implies status = completed.
C9_FullProgressOnlyWhenCompleted ==
    \A id \in DOMAIN results :
        results[id].progress = ProgressOne(Len(results[id].files))
            => results[id].status = "completed"

\* C10: every call of segment_video returns a non-empty list of segments.
C10_AlwaysSomeSegments == seg.pc = "done" => seg.out # <<>>

\* The coordinator holds a task for which segment_video has run, every
\* request to the LLM failed, and no collaborator raised.
LlmFailedOnly(c) ==
    /\ c.task # NoTask
    /\ c.llm = "failed"
    /\ c.cause # "call"

\* The entry e holds the completed result of a task of the files given:
\* one element per file, in order, each with segments.
CompletedWithSegments(e, files) ==
    /\ e.status = "completed"
    /\ Len(e.result) = Len(files)
    /\ \A k \in 1..Len(files) :
           e.result[k].file = files[k] /\ e.result[k].has_segments

\* C11: a task whose LLM requests all time out (or fail with a connection
\* or HTTP error), while audio extraction, transcription and alignment
\* succeed, ends in Completed with a segment list for every file, and never
\* in Failed: the step that ends the processing of such a task (control
\* reaches the finally clause) leaves its entry with status completed and
\* one non-empty segment list per file.
C11_LlmFailureStillCompletes ==
    [][(coord.pc # "finally" /\ coord'.pc = "finally" /\ LlmFailedOnly(coord'))
        => /\ coord'.task \in DOMAIN results'
           /\ CompletedWithSegments(results'[coord'.task], coord'.files)]_vars

\* While the entry of such a task is in the store when its processing
\* ends, the task has ended as C11 says.
C11_HoldsWhileStored ==
    [][(coord.pc # "finally" /\ coord'.pc = "finally" /\ LlmFailedOnly(coord')
            /\ coord'.task \in DOMAIN results')
        => CompletedWithSegments(results'[coord'.task], coord'.files)]_vars

\* Segments a and b share some time.
Overlap(a, b) == a.start < b.end /\ b.start < a.end

\* C12: for every list of candidate segments fed to the merger, in any
\* order of scores and start times, the output segments are pairwise
\* non-overlapping in time.
C12_MergedSegmentsDisjoint ==
    narr.pc = "done" =>
    \A i \in 1..Len(narr.out) : \A j \in 1..Len(narr.out) :
        i # j => ~Overlap(narr.out[i], narr.out[j])

\* The second from t to t + 1 lies inside some segment of segs.
Covered(segs, t) ==
    \E k \in 1..Len(segs) : segs[k].start <= t /\ t + 1 <= segs[k].end

\* C13: merging never drops time: every instant covered by some segment
\* fed to the merger is covered by some output segment.
C13_MergeKeepsTime ==
    narr.pc = "done" =>
    \A t \in 0..(LastPoint - 1) :
        Covered(narr.fed, t) => Covered(narr.out, t)

\* C14: normalize_relevancy_score is idempotent on its own output,
\* normalize(normalize(x)) = normalize(x) for every finite numeric x, and
\* normalize(0) = 1.0 and normalize(1.0) = 10.0.
C14_NormalizeIdempotent ==
    (norm.pc = "twice" /\ norm.x.kind = "num")
        => /\ norm.twice = norm.once
           /\ norm.x.v = 0 => norm.once = 1000
           /\ norm.x.v = 1000 => norm.once = 10000

\* C14 as amended: normalize(normalize(x)) = normalize(x) for every finite
\* numeric x whose normalized value is not 1.0; a normalized value of 1.0
\* is mapped to 10.0 by the second application; normalize(0) = 1.0 and
\* normalize(1.0) = 10.0.
C14_IdempotentExceptAtOne ==
    (norm.pc = "twice" /\ norm.x.kind = "num")
        => /\ norm.once # 1000 => norm.twice = norm.once
           /\ norm.once = 1000 => norm.twice = 10000
           /\ norm.x.v = 0 => norm.once = 1000
           /\ norm.x.v = 1000 => norm.once = 10000

\* C14 witness: 0.5 was normalized to 5.5 and 5.5 to itself.
C14_Witness ==
    /\ norm.pc = "twice"
    /\ norm.x = Num(500)
    /\ norm.once = 5500
    /\ norm.twice = 5500

\* C15: every segment returned by the narrative segmentation that has both
\* a relevance score and an engagement score, merged segments included, has
\* compositeScore = 0.6 * relevanceScore + 0.4 * engagementScore.
C15_CompositeIsWeightedSum ==
    narr.pc = "done" =>
    \A k \in 1..Len(narr.out) :
        narr.out[k].composite_score =
            6 * narr.out[k].relevance_score
            + 4 * narr.out[k].engagement_score

\* C16: every segment in a list returned by segment_video, whichever stage
\* produced it (direct parse, cleanup-and-extract, unconstrained retry or
\* the default segmentation), has numeric start and end with
\* 0 <= start < end.
C16_SegmentTimesWellFormed ==
    seg.pc = "done" =>
        \A k \in 1..Len(seg.out) :
            0 <= seg.out[k].start /\ seg.out[k].start < seg.out[k].end

\* The part of C16 that the default segmentation breaks: start < end.
C16_DefaultSegmentsNonEmpty ==
    (seg.pc = "done" /\ seg.stages[Len(seg.stages)] = "default") =>
        \A k \in 1..Len(seg.out) : seg.out[k].start < seg.out[k].end

\* g is what the claim says a pick returns from the workers ws: None
\* exactly when every worker is busy, otherwise an idle worker of least
\* average time (total_time / total_jobs, 0 without jobs).
BestIdle(ws, g) ==
    /\ g = NoGpu <=> \A h \in GpuIds : ws[h].is_busy
    /\ g # NoGpu =>
          /\ g \in GpuIds
          /\ ~ws[g].is_busy
          /\ \A h \in GpuIds :
                 ~ws[h].is_busy =>
                     AvgNum(ws[g]) * AvgDen(ws[h])
                         <= AvgNum(ws[h]) * AvgDen(ws[g])

\* C17: get_best_available_gpu returns None if and only if every worker is
\* busy; otherwise it returns a worker that is not busy at the moment of
\* the call and whose average time is minimal among the workers that are
\* not busy: so is every pick made by a transcribe_audio call, at its
\* start or in its wait loop.
C17_PickIsBestIdleWorker ==
    [][\A c \in CallIds :
          (calls[c].pc \in {"new", "wait"} /\ calls'[c] # calls[c])
              => BestIdle(workers, calls'[c].gpu)]_vars

\* C17 witness: a call has picked the second worker while the first one is
\* idle too, with a greater average time.
C17_Witness ==
    \E c \in CallIds :
        /\ calls[c].pc = "picked"
        /\ calls[c].gpu = 1
        /\ ~workers[0].is_busy
        /\ AvgLess(workers[1], workers[0])

\* C18: every transcribe_audio call that marked a worker busy clears that
\* worker's busy flag and current task before it returns, on every exit
\* path (successful transcription, exception of the recognizer, exception
\* while entering the device context): the step with which the call ends
\* leaves the worker idle and without a task.
C18_BusyClearedOnEveryExit ==
    [][\A c \in CallIds :
          (InFlight(c) /\ calls'[c].pc \notin
               {"setup", "run", "stats", "fin_ok", "fin_err"})
              => /\ calls'[c].pc \in {"returned", "raised"}
                 /\ ~workers'[calls[c].gpu].is_busy
                 /\ workers'[calls[c].gpu].current_task = NoTask]_vars

\* C18 witness: one call has returned and another has raised, and their
\* workers are idle.
C18_Witness ==
    \E a \in CallIds : \E b \in CallIds :
        /\ calls[a].pc = "returned" /\ calls[b].pc = "raised"
        /\ \A g \in GpuIds : ~workers[g].is_busy
                              /\ workers[g].current_task = NoTask

\* A step of call c before it has a worker: its first pick or a round of
\* its wait loop.
WaitStep(c) == calls[c].pc \in {"new", "wait"} /\ calls'[c] # calls[c]

\* C19: a transcribe_audio call that finds no idle worker checks again at
\* most 60 times; a check that finds an idle worker ends the wait and the
\* job goes to that worker; when no check does, the call ends with the "no
\* GPU available" error and has neither marked a worker busy nor changed a
\* worker's statistics.  The wait always ends: a waiting call has made
\* fewer than 60 checks, every check counts, and the 60th one ends it.
C19_BoundedWait ==
    /\ [](\A c \in CallIds :
            /\ calls[c].polls <= MaxWaitPolls
            /\ calls[c].pc = "wait" => calls[c].polls < MaxWaitPolls
            /\ calls[c].pc = "nocap" => calls[c].polls = MaxWaitPolls)
    /\ [][\A c \in CallIds :
            /\ WaitStep(c) =>
                  /\ workers' = workers
                  /\ calls[c].pc = "wait" => calls'[c].polls = calls[c].polls + 1
                  /\ calls'[c].pc = "picked"
                        <=> \E g \in GpuIds : ~workers[g].is_busy
                  /\ calls'[c].pc = "picked"
                        => ~workers[calls'[c].gpu].is_busy
                  /\ calls'[c].pc \in {"picked", "wait", "nocap"}
            /\ (calls[c].pc = "picked" /\ calls'[c] # calls[c])
                  => /\ workers'[calls[c].gpu].is_busy
                     /\ workers'[calls[c].gpu].current_task = c
            /\ calls[c].pc = "nocap" => calls'[c] = calls[c]]_vars

\* C19 witness: a call has ended with the error after 60 checks, while the
\* two other calls are at work, one on each worker.
C19_Witness ==
    \E c \in CallIds :
        /\ calls[c].pc = "nocap" /\ calls[c].polls = MaxWaitPolls
        /\ \A g \in GpuIds :
               \E d \in CallIds : InFlight(d) /\ calls[d].gpu = g

\* C20: transcribe_multiple_files on n paths returns exactly n results,
\* result i belonging to path i, for every order in which the concurrent
\* jobs end; a path whose job fails has an error record at its own index
\* and the results of the other paths are still returned.
C20_ResultsInPathOrder ==
    batch.pc = "done" =>
        /\ Len(batch.results) = batch.n
        /\ \A i \in 1..batch.n :
               /\ batch.results[i].audio_path = i
               /\ batch.results[i].error = "none" => calls[i].pc = "returned"
               /\ batch.results[i].error = "failed"
                     => calls[i].pc \in {"raised", "nocap"}
               /\ calls[i].pc \in {"raised", "nocap"}
                     => batch.results[i].error # "none"

\* C20 witness: the call on three paths has returned; the job of the
\* second path failed and has its error record at index 2, the results of
\* the first and the third path are returned at indices 1 and 3.
C20_Witness ==
    /\ batch.pc = "done" /\ batch.n = 3
    /\ batch.results[1].error = "none"
    /\ batch.results[2].error = "failed"
    /\ batch.results[3].error = "none"

(***************************************************************************)
(* C21: tasks are set to "processing" in the order in which they were      *)
(* submitted (the ids are numbered in the order in which add_task          *)
(* completed, so the k-th task set to "processing" is task k), and the     *)
(* coordinator never processes two tasks at the same time: an entry whose  *)
(* status is "processing" belongs to the one task the coordinator holds,   *)
(* which is the task it started last.                                      *)
(***************************************************************************)
C21_SubmissionOrder ==
    /\ \A k \in 1..Len(started) : started[k] = k
    /\ \A id \in DOMAIN results :
           results[id].status = "processing"
               => /\ coord.task = id
                  /\ started # <<>>
                  /\ started[Len(started)] = id

\* Two tasks were started, in order, while a third one was waiting.
C21_Witness ==
    /\ started = <<1, 2>>
    /\ coord.task = 2
    /\ 2 \in DOMAIN results
    /\ results[2].status = "processing"
    /\ queue = <<3>>

(***************************************************************************)
(* C22: within one task the files are processed one after another in input *)
(* order.  While the coordinator is at a stage of file i (in particular    *)
(* when it issues the transcription request of file i), every stage of the *)
(* files 1..i-1 has returned: file_results holds exactly their results, in *)
(* order, and nothing of file i or of a later file before file i is done.  *)
(***************************************************************************)
FilePcs == {"file_begin", "extract_w", "extract", "asr_w", "asr", "align_w",
            "align", "seg_w", "seg", "file_done"}

C22_FilesOneAfterAnother ==
    coord.pc \in FilePcs =>
        /\ coord.i \in 1..Len(coord.files)
        /\ Len(coord.file_results) =
               (IF coord.pc = "file_done" THEN coord.i ELSE coord.i - 1)
        /\ \A k \in 1..Len(coord.file_results) :
               coord.file_results[k].file = k

\* The transcription request of the second file is about to be issued
C22_Witness ==
    /\ coord.pc = "asr"
    /\ coord.i = 2
    /\ Len(coord.file_results) = 1
    /\ coord.file_results[1].file = 1

(***************************************************************************)
(* C23: get_result on a stored id sets the last_accessed time of that      *)
(* entry to the current time and changes nothing else: no other field of   *)
(* the entry, no other entry, not the set of stored ids; it returns the    *)
(* entry.  On an id that is not stored it returns {"status": "not_found"}  *)
(* and leaves the store as it was, without an entry for that id.           *)
(***************************************************************************)
SameButAccess(e, f) ==
    /\ DOMAIN e = DOMAIN f
    /\ \A k \in (DOMAIN e) \ {"last_accessed"} : e[k] = f[k]

C23_GetTouchesOnlyAccessTime ==
    [][\A id \in TaskIds :
          (coord' = coord /\ now' = now /\ get_result(id)) =>
              IF id \in DOMAIN results
              THEN /\ DOMAIN results' = DOMAIN results
                   /\ \A other \in (DOMAIN results) \ {id} :
                          results'[other] = results[other]
                   /\ results'[id].last_accessed = now
                   /\ SameButAccess(results[id], results'[id])
                   /\ Returned(results, id, now) = results'[id]
              ELSE /\ results' = results
                   /\ id \notin DOMAIN results'
                   /\ Returned(results, id, now).status = "not_found"]_vars

\* An entry was read after the clock had advanced, and an id that was
\* submitted is no longer stored (a read of it finds nothing).
C23_Witness ==
    /\ \E id \in DOMAIN results :
           /\ results[id].last_accessed = now
           /\ results[id].timestamp < now
    /\ \E id \in 1..(nextId - 1) : id \notin DOMAIN results

(***************************************************************************)
(* C24: when no parse stage gave a segment, segment_video returns exactly  *)
(* 5 segments of equal duration, the first starting at 0, each ending      *)
(* where the next starts, the last ending at the detected total duration:  *)
(* the largest timestamp found in the subtitle text, or 300 seconds when   *)
(* there is none.                                                          *)
(***************************************************************************)
DetectedTotal(times) ==
    IF times # {} THEN SetMax(times) ELSE DEFAULT_TOTAL_DURATION

Duration(s) == s.end - s.start

FiveFromZeroTo(out, total) ==
    /\ Len(out) = 5
    /\ out[1].start = 0
    /\ \A i \in 1..4 : out[i].end = out[i + 1].start
    /\ out[5].end = total

C24_DefaultIsFiveEqualParts ==
    (seg.pc = "done" /\ seg.stages[Len(seg.stages)] = "default") =>
        /\ FiveFromZeroTo(seg.out, DetectedTotal(seg.times))
        /\ \A i, j \in 1..5 : Duration(seg.out[i]) = Duration(seg.out[j])

\* What does hold of the default segmentation: five contiguous segments
\* from 0 to the total (in tenths of a second), of any durations.
C24_DefaultIsFiveContiguous ==
    (seg.pc = "done" /\ seg.stages[Len(seg.stages)] = "default") =>
        FiveFromZeroTo(seg.out, DetectedTotal(seg.times))

(***************************************************************************)
(* C25: the stages of segment_video run in the order schema-constrained    *)
(* request, cleanup-and-extract, unconstrained retry, default              *)
(* segmentation, and a stage runs only if every stage before it gave no    *)
(* valid segment: the cleanup only when the direct parse of the first      *)
(* answer gave none, the second request only when neither the direct parse *)
(* nor the cleanup of the first answer gave one, the default segmentation  *)
(* only when the second answer gave none either.                           *)
(***************************************************************************)
StageRank(stage) ==
    CASE stage = "schema"  -> 1
      [] stage = "cleanup" -> 2
      [] stage = "retry"   -> 3
      [] stage = "default" -> 4

\* the valid segments that the direct parse of an outcome gives
SchemaYield(r) ==
    IF r.kind # "error" /\ DirectJson(r) = "array"
    THEN _validate_segments(r.items) ELSE <<>>

\* the valid segments that cleanup-and-extract gives on an outcome
CleanupYield(r) ==
    IF r.kind # "error" THEN _parse_and_validate_response(r) ELSE <<>>

Ran(s, stage) == \E k \in 1..Len(s.stages) : s.stages[k] = stage

C25_StagesInOrder ==
    /\ \A i, j \in 1..Len(seg.stages) :
           i < j => StageRank(seg.stages[i]) < StageRank(seg.stages[j])
    /\ seg.pc = "call1" =>
           \A r \in Responses :
               LET n == AfterFirst(seg, r)
               IN  /\ Ran(n, "cleanup") => SchemaYield(r) = <<>>
                   /\ n.pc = "call2" =>
                          SchemaYield(r) = <<>> /\ CleanupYield(r) = <<>>
    /\ seg.pc = "call2" =>
           \A r \in Responses :
               LET n == AfterRetry(seg, r)
               IN  /\ Ran(n, "retry")
                   /\ Ran(n, "default") => CleanupYield(r) = <<>>
    /\ seg.pc = "done" =>
           /\ Ran(seg, "schema")
           /\ (~Ran(seg, "retry") /\ Ran(seg, "cleanup")) =>
                  SchemaYield(seg.resp) = <<>>
           /\ Ran(seg, "default") => CleanupYield(seg.resp) = <<>>

\* The whole chain ran: the first answer was text that gave nothing, the
\* second request gave nothing, the default segmentation was returned.
C25_Witness ==
    /\ seg.pc = "done"
    /\ seg.stages = <<"schema", "cleanup", "retry", "default">>
    /\ seg.resp.kind = "text"
    /\ Len(seg.out) = 5

(***************************************************************************)
(* C26: the validation drops the entries that do not conform one by one.   *)
(* For every parsed list the validated output is the sub-list, in the      *)
(* original order, of the entries that are objects whose start and end     *)
(* are convertible to numbers with start < end; an entry that does not     *)
(* conform never removes one that does.                                    *)
(***************************************************************************)
Conforming(e) ==
    /\ e.isDict
    /\ e.start \notin {Missing, Bad, Huge}
    /\ e.end \notin {Missing, Bad, Huge}
    /\ e.start < e.end

\* _validate_segments, on the list that segment_video returned directly
C26_DirectKeepsConforming ==
    (seg.pc = "done" /\ seg.stages = <<"schema">>) =>
        seg.out = KeepValid(seg.resp.items, Conforming)

\* _parse_and_validate_response, on every answer that a request of
\* segment_video can get
C26_ParseKeepsConforming ==
    seg.pc \in {"call1", "call2"} =>
        \A r \in TextResponses :
            _parse_and_validate_response(r)
                = KeepValid(ParsedItems(r), Conforming)

C26_ValidatedIsConformingSubList ==
    C26_DirectKeepsConforming /\ C26_ParseKeepsConforming

(***************************************************************************)
(* C27: after every dequeued task, completed or failed, the coordinator    *)
(* runs _clear_gpu_memory exactly once before it dequeues the next task,   *)
(* and an error inside it changes neither the recorded status nor the      *)
(* course of the loop.  As steps of the coordinator:                       *)
(*  - the write of "completed" or "error" leads to the finally clause;     *)
(*  - the release runs from the finally clause only, when it has not run   *)
(*    for this task, and changes nothing but the position of the           *)
(*    coordinator: not the store, not a pending exception;                 *)
(*  - the coordinator waits for the next task only after the release ran,  *)
(*    a task is dequeued only by the waiting coordinator, and after the    *)
(*    release the loop goes on unless an exception of the task itself is   *)
(*    pending, whatever the outcome of the release was.                    *)
(***************************************************************************)
StatusOf(res, id) == IF id \in DOMAIN res THEN res[id].status ELSE "absent"

C27_ReleaseOncePerTask ==
    /\ [](coord.cleared # "no" <=> coord.pc = "task_done")
    /\ [][/\ (/\ coord.task # NoTask
              /\ StatusOf(results', coord.task) \in {"completed", "error"}
              /\ StatusOf(results, coord.task) = "processing")
                 => coord'.pc = "finally"
          /\ (coord.pc # "task_done" /\ coord'.pc = "task_done")
                 => /\ coord.pc = "finally"
                    /\ coord.cleared = "no"
                    /\ coord' = [coord EXCEPT !.pc = "task_done",
                                              !.cleared = coord'.cleared]
                    /\ results' = results
          /\ (coord.pc # "get" /\ coord'.pc = "get")
                 => coord.pc = "task_done" /\ coord.cleared \in {"ok", "error"}
          /\ coord'.task # coord.task /\ coord'.task # NoTask
                 => coord.pc = "get"
          /\ (coord.pc = "task_done" /\ coord' # coord)
                 => /\ coord'.pc = (IF coord.exc THEN "dead" ELSE "get")
                    /\ results' = results]_vars

\* The release failed after a task was completed while the next task is
\* waiting in the queue.
C27_Witness ==
    /\ coord.pc = "task_done"
    /\ coord.cleared = "error"
    /\ ~coord.exc
    /\ StatusOf(results, coord.task) = "completed"
    /\ queue # <<>>

(***************************************************************************)
(* C28: reload_settings always terminates: it returns a settings instance  *)
(* and never blocks forever on the settings lock.  A call that terminates  *)
(* is never in a state from which it cannot move again: a thread never     *)
(* waits for _settings_lock while it holds that lock itself (nobody else   *)
(* can release it).                                                        *)
(***************************************************************************)
WaitsForItself(t) == cfg[t].pc = "acquire" /\ _settings_lock = t

C28_ReloadTerminates == \A t \in Threads : ~WaitsForItself(t)

\* What holds instead: no call of reload_settings ever reaches the return
\* statement of get_settings.
C28_ReloadNeverReturns ==
    \A t \in Threads : cfg[t].op = "reload" => cfg[t].pc # "return"

(***************************************************************************)
(* C29: a service registered with singleton lifetime, by implementation    *)
(* type or by factory, resolves to one and the same instance on every      *)
(* resolution, through ServiceContainer.get_service from any thread and    *)
(* through any ServiceScope.get_service, and its implementation is         *)
(* constructed at most once.                                               *)
(***************************************************************************)
C29_SingletonIsOneInstance ==
    _services.lifetime = "singleton" =>
        /\ built <= 1
        /\ \A t \in Threads :
               di[t].got # NoInstance => di[t].got = _singletons

\* What holds instead: the resolutions through the container, from any
\* thread, give the one instance stored in _singletons.
C29_ContainerResolvesToOneInstance ==
    _services.lifetime = "singleton" =>
        \A t \in Threads :
            (di[t].via = "container" /\ di[t].got # NoInstance)
                => (di[t].got = _singletons /\ _singletons # NoInstance)

(***************************************************************************)
(* C30: between two shutdowns get_whisper_gpu_load_balancer creates at     *)
(* most one WhisperGPULoadBalancer, also when several threads call it      *)
(* concurrently (so that all callers share one worker table).              *)
(***************************************************************************)
C30_OneBalancerBetweenShutdowns == since_shutdown <= 1

====
